---- MODULE Spec2Model ----
(***************************************************************************)
(* otakara_kuji: the request handlers delete_category, omikuji (draw) and  *)
(* list_category over the two DynamoDB tables "category" and "item".       *)
(*                                                                         *)
(* Every Lambda invocation is a process; the invocations in flight are a   *)
(* bag of their local states (invocations have no identity).  Parsing the  *)
(* event and reading the environment are local computation and form one    *)
(* step with the first store call (Invoke...);                             *)
(* every store call is a step of its own, so that invocations interleave   *)
(* at the granularity of store calls.  A store call either succeeds or the *)
(* store reports a failure code (botocore ClientError).  The step that     *)
(* ends an invocation hands the envelope to the gateway (returned); the    *)
(* gateway takes it in the next step (Deliver).                            *)
(***************************************************************************)
EXTENDS Integers, Sequences, FiniteSets, Bags, TLC

\* ---- bounds ----
\* invocations in flight at the same time
MaxConcurrent == 2
\* items of a category at its creation
MaxItems == 2

Categories == {"A", "B"}

\* ---- the environment and the store's failure codes ----
EnvVars == {"CATEGORY_TABLE_NAME", "ITEM_TABLE_NAME"}

InternalServerError == "InternalServerError"
ResourceNotFoundException == "ResourceNotFoundException"
\* the code standing for "every other code"
OtherCodes == {"ValidationException"}
ErrorCodes == {InternalServerError, ResourceNotFoundException} \cup OtherCodes
\* what a store call can report: success or one of the failure codes
StoreOutcomes == {"ok"} \cup ErrorCodes

\* ---- table schema (cdk/infra_construct.py) ----
\* the DynamoDB type of the item table's sort key item_id
ItemIdType == "N"

\* ---- exceptions ----
NoExc == [kind |-> "none", message |-> ""]
ClientError(message) == [kind |-> "ClientError", message |-> message]
ServerError(message) == [kind |-> "ServerError", message |-> message]
\* any exception that is neither ClientError nor ServerError
OtherError(name) == [kind |-> "Other", message |-> name]

\* error.response["Error"]["Message"] of a store failure
ErrorMessage(code) == "store: " \o code

\* ---- response messages: a str, a list of str, or an item dict ----
NoItem == [category |-> "", item_id |-> -1, name |-> ""]
StrMsg(s) == [type |-> "str", str |-> s, list |-> <<>>, dict |-> NoItem]
ListMsg(l) == [type |-> "list", str |-> "", list |-> l, dict |-> NoItem]
DictMsg(d) == [type |-> "dict", str |-> "", list |-> <<>>, dict |-> d]

Response(status_code, message) == [statusCode |-> status_code, message |-> message]

MsgTryLater == "internal server error. Please access again after some time."
MsgContact == "internal server error. Please contact the operator."
MsgClient == "client error. "

\* ---- inbound events ----
\* The part of the event a parser reads (event["body"] for delete-category,
\* event["pathParameters"] for draw):
\*   absent  - the event has no such entry
\*   null    - the entry is null
\*   invalid - the entry is text that is not JSON (body only)
\*   object  - a JSON object whose keys are `keys`; `category` is the value
\*             of its category key ("" when it has none)
NoEvent == [kind |-> "absent", keys |-> {}, category |-> ""]
ObjectEvents(fields) ==
    { [kind |-> "object", keys |-> k, category |-> c] :
        k \in SUBSET fields, c \in Categories \cup {""} }
WellTyped(e) == (e.category # "") <=> ("category" \in e.keys)
DeleteEvents ==
    { [kind |-> k, keys |-> {}, category |-> ""] : k \in {"absent", "null", "invalid"} }
    \cup { e \in ObjectEvents({"category", "items"}) : WellTyped(e) }
DrawEvents ==
    { [kind |-> k, keys |-> {}, category |-> ""] : k \in {"absent", "null"} }
    \cup { e \in ObjectEvents({"category"}) : WellTyped(e) }

\* ---- request parsers ----
ApiBody_fields == {"category", "items"}
ApiPathParamater_fields == {"category"}

\* delete_category ApiBody.from_event: the exception it raises (NoExc: none).
\* With no "body" entry the except clause evaluates event["body"] again and
\* raises KeyError instead of ClientError.
ApiBody_from_event(event) ==
    IF event.kind = "absent" THEN OtherError("KeyError")
    ELSE IF event.kind # "object" THEN ClientError("Invalid parameter.")
    ELSE IF ~(ApiBody_fields \subseteq event.keys) THEN ClientError("Invalid parameter.")
    ELSE NoExc

\* omikuji ApiPathParamater.from_event.  With no "pathParameters" entry the
\* except clause reads the unbound local `paramater`: UnboundLocalError.
ApiPathParamater_from_event(event) ==
    IF event.kind = "absent" THEN OtherError("UnboundLocalError")
    ELSE IF event.kind # "object" THEN ClientError("Invalid parameter.")
    ELSE IF ~(ApiPathParamater_fields \subseteq event.keys) THEN ClientError("Invalid parameter.")
    ELSE NoExc

\* EnvParam.from_env over the handler's EnvParam._fields.  A missing variable
\* raises KeyError; the except clause evaluates json.dumps(os.environ), which
\* raises TypeError (os.environ is not a dict) before ServerError is built.
EnvParam_from_env(fields, env) ==
    IF fields \subseteq env THEN NoExc ELSE OtherError("TypeError")

\* Python evaluates the keyword arguments of service(...) left to right:
\* body=...from_event(event) first, env=EnvParam.from_env() second.
ParseThenEnv(parsed, envr) == IF parsed.kind # "none" THEN parsed ELSE envr

EnvParam_fields_delete == {"CATEGORY_TABLE_NAME", "ITEM_TABLE_NAME"}
EnvParam_fields_omikuji == {"CATEGORY_TABLE_NAME", "ITEM_TABLE_NAME"}
EnvParam_fields_list == {"CATEGORY_TABLE_NAME"}

\* ---- handler entry point: the try/except of lambda_handler ----
\* raised: what parse + service raised (NoExc: normal return of `ok`)
\* a handler that answers 500 where it should answer 400
delete_lambda_handler_mutant(raised, ok) ==
    IF raised.kind = "none" THEN ok
    ELSE IF raised.kind = "ServerError" THEN Response(500, StrMsg(MsgTryLater))
    ELSE IF raised.kind = "ClientError" THEN Response(500, StrMsg(MsgClient \o raised.message))
    ELSE Response(500, StrMsg(MsgContact))

delete_lambda_handler(raised, ok) ==
    IF raised.kind = "none" THEN ok
    ELSE IF raised.kind = "ServerError" THEN Response(500, StrMsg(MsgTryLater))
    ELSE IF raised.kind = "ClientError" THEN Response(400, StrMsg(MsgClient \o raised.message))
    ELSE Response(500, StrMsg(MsgContact))

omikuji_lambda_handler(raised, ok) ==
    IF raised.kind = "none" THEN ok
    ELSE IF raised.kind = "ServerError" THEN Response(500, StrMsg(MsgTryLater))
    ELSE IF raised.kind = "ClientError" THEN Response(400, StrMsg(MsgClient \o raised.message))
    ELSE Response(500, StrMsg(MsgContact))

list_lambda_handler(raised, ok) ==
    IF raised.kind = "none" THEN ok
    ELSE IF raised.kind = "ServerError" THEN Response(500, StrMsg(MsgTryLater))
    ELSE IF raised.kind = "ClientError" THEN Response(400, StrMsg(MsgClient \o raised.message))
    ELSE Response(500, StrMsg(MsgContact))

\* ---- store access helpers ----
\* Each takes what the store reported (outcome) and what the call yields on
\* success, and gives the exception raised (NoExc: none) and the value returned.
NoCategory == [category |-> "", num_item |-> -1]

\* a get_item that treats "resource not found" as any other failure code
get_item_mutant(outcome, found) ==
    IF outcome = "ok" THEN [raised |-> NoExc, item |-> found]
    ELSE IF outcome = InternalServerError
        THEN [raised |-> ServerError(ErrorMessage(outcome)), item |-> {}]
    ELSE [raised |-> ClientError(ErrorMessage(outcome)), item |-> {}]

\* get_item: `found` is the set of records with the key (empty or a singleton)
get_item(outcome, found) ==
    IF outcome = "ok" THEN [raised |-> NoExc, item |-> found]
    ELSE IF outcome = InternalServerError
        THEN [raised |-> ServerError(ErrorMessage(outcome)), item |-> {}]
    ELSE IF outcome = ResourceNotFoundException
        THEN [raised |-> NoExc, item |-> {}]
    ELSE [raised |-> ClientError(ErrorMessage(outcome)), item |-> {}]

\* query_items: `result` is list(response_iterator.search(query))
query_items(outcome, result) ==
    IF outcome = "ok" THEN [raised |-> NoExc, items |-> result]
    ELSE IF outcome = InternalServerError
        THEN [raised |-> ServerError(ErrorMessage(outcome)), items |-> <<>>]
    ELSE IF outcome = ResourceNotFoundException
        THEN [raised |-> NoExc, items |-> <<>>]
    ELSE [raised |-> ClientError(ErrorMessage(outcome)), items |-> <<>>]

\* omikuji's copy of get_item
omikuji_get_item(outcome, found) ==
    IF outcome = "ok" THEN [raised |-> NoExc, item |-> found]
    ELSE IF outcome = InternalServerError
        THEN [raised |-> ServerError(ErrorMessage(outcome)), item |-> {}]
    ELSE IF outcome = ResourceNotFoundException
        THEN [raised |-> NoExc, item |-> {}]
    ELSE [raised |-> ClientError(ErrorMessage(outcome)), item |-> {}]

\* scan_items
scan_items(outcome, result) ==
    IF outcome = "ok" THEN [raised |-> NoExc, items |-> result]
    ELSE IF outcome = InternalServerError
        THEN [raised |-> ServerError(ErrorMessage(outcome)), items |-> <<>>]
    ELSE IF outcome = ResourceNotFoundException
        THEN [raised |-> NoExc, items |-> <<>>]
    ELSE [raised |-> ClientError(ErrorMessage(outcome)), items |-> <<>>]

\* a delete_items that swallows every store failure
delete_items_mutant(outcome) == NoExc

\* delete_items on a non-empty key list: the exception raised
delete_items(outcome) ==
    IF outcome = "ok" THEN NoExc
    ELSE IF outcome = InternalServerError THEN ServerError(ErrorMessage(outcome))
    ELSE ClientError(ErrorMessage(outcome))

\* ---- the store ----
VARIABLES
    table_category,   \* set of records [category, num_item]; category is the key
    table_item,       \* set of records [category, item_id, name]; (category, item_id) is the key
    inv,              \* the bag of the invocations in flight (their local state)
    returned          \* <<>> or <<r>>: the envelope just handed to the gateway, with its invocation

vars == <<table_category, table_item, inv, returned>>

\* a Python value used as item_id in a key: an int or a str
PyInt(v) == [type |-> "int", val |-> v]
PyStr(v) == [type |-> "str", val |-> v]
NoKey == [category |-> "", item_id |-> PyInt(-1)]

\* how the resource API serialises a Python value (int -> N, str -> S)
SerializedType(py) == IF py.type = "str" THEN "S" ELSE "N"

\* the item payload (opaque to the handlers)
Item(c, i) == [category |-> c, item_id |-> i, name |-> "prize"]

\* the local state of an invocation at its start
Start ==
    [pc |-> "start", handler |-> "", event |-> NoEvent, env |-> {}, body |-> "",
     response_category |-> NoCategory, response_items |-> <<>>, key |-> NoKey,
     ops |-> <<>>, muts |-> 0]

Init ==
    /\ table_category = {}
    /\ table_item = {}
    /\ inv = EmptyBag
    /\ returned = <<>>

\* a new invocation may start
CanInvoke == returned = <<>> /\ BagCardinality(inv) < MaxConcurrent

\* An invocation goes on from local state r to local state r2, or ends in r.
\* An invocation at pc "start" is not yet in the bag: taking it out leaves
\* the bag as it is.
Continue(r, r2) == inv' = (inv (-) SetToBag({r})) (+) SetToBag({r2})
End(r) == inv' = inv (-) SetToBag({r})

\* an invocation ends in local state r: its envelope goes to the gateway
Return(r, raised, response) ==
    returned' = << [inv |-> r, raised |-> raised, response |-> response] >>

\* the gateway takes the envelope
Deliver ==
    /\ returned # <<>>
    /\ returned' = <<>>
    /\ UNCHANGED <<table_category, table_item, inv>>

\* r with one more store call issued, and what the store reported
Issue(r, op, outcome) == [r EXCEPT !.ops = Append(@, [op |-> op, outcome |-> outcome])]

\* stands for service's result where service raised and there is none
NoResponse == Response(0, StrMsg(""))

\* ---- delete_category ----
DeleteOk == Response(200, StrMsg("success"))

\* a service that blames the server for a missing category
delete_category_is_empty_mutant(category) == ServerError("category is empty: " \o category)

\* service: what it raises when the category lookup gave None
delete_category_is_empty(category) == ClientError("category is empty: " \o category)

\* service: response_category = get_item(CATEGORY_TABLE_NAME, {"category": body.category});
\* service only tests it against None, so the record is not kept
DeleteGetCategory(r) ==
    /\ \E outcome \in StoreOutcomes :
        LET res == get_item(outcome, {x \in table_category : x.category = r.body})
            r2 == Issue(r, "get_item:category", outcome)
            raised == IF res.raised.kind # "none" THEN res.raised
                      ELSE delete_category_is_empty(r.body)
        IN  IF res.raised.kind # "none" \/ res.item = {}
            THEN /\ Return(r2, raised, delete_lambda_handler(raised, DeleteOk))
                 /\ End(r)
            ELSE /\ Continue(r, [r2 EXCEPT !.pc = "d_query_items"])
                 /\ UNCHANGED returned
    /\ UNCHANGED <<table_category, table_item>>

\* lambda_handler: parse the body, read the environment, call service
InvokeDelete ==
    /\ CanInvoke
    /\ \E event \in DeleteEvents, env \in SUBSET EnvVars :
        LET raised == ParseThenEnv(ApiBody_from_event(event),
                                   EnvParam_from_env(EnvParam_fields_delete, env))
            r == [Start EXCEPT !.handler = "delete_category", !.event = event,
                               !.env = env, !.body = event.category]
        IN  IF raised.kind # "none"
            THEN /\ Return(r, raised, delete_lambda_handler(raised, DeleteOk))
                 /\ UNCHANGED <<table_category, table_item, inv>>
            ELSE DeleteGetCategory(r)

\* the ids of a set in ascending order (a Query returns a partition in sort key order)
RECURSIVE Ascending(_)
Ascending(ids) ==
    IF ids = {} THEN <<>>
    ELSE LET m == CHOOSE x \in ids : \A y \in ids : x <= y
         IN  <<m>> \o Ascending(ids \ {m})

\* Query on the item table, KeyConditions category EQ value: the item_id
\* attribute of each item of the partition as the low-level client returns
\* it, tagged with its DynamoDB type
QueryItemIds(value) ==
    LET ids == Ascending({x.item_id : x \in {y \in table_item : y.category = value}})
    IN  [i \in 1..Len(ids) |-> [tag |-> ItemIdType, val |-> ids[i]]]

\* the type member the query expression of service selects: "Items[].item_id.S"
QueryMember == "S"

\* response_iterator.search("Items[].item_id.<member>"): a JMESPath projection
\* drops the items whose item_id has no such member; what is left are strs
search(attrs, member) ==
    LET hit == SelectSeq(attrs, LAMBDA a : a.tag = member)
    IN  [i \in 1..Len(hit) |-> PyStr(hit[i].val)]

\* service: response_items = query_items(ITEM_TABLE_NAME, "category", body.category, ...)
DeleteQueryItems(r) ==
    /\ returned = <<>>
    /\ r.pc = "d_query_items"
    /\ \E outcome \in StoreOutcomes :
        LET res == query_items(outcome, search(QueryItemIds(r.body), QueryMember))
            r2 == Issue(r, "query:item", outcome)
        IN  IF res.raised.kind # "none"
            THEN /\ Return(r2, res.raised, delete_lambda_handler(res.raised, DeleteOk))
                 /\ End(r)
            ELSE /\ Continue(r, [r2 EXCEPT !.pc = "d_delete_items", !.response_items = res.items])
                 /\ UNCHANGED returned
    /\ UNCHANGED <<table_category, table_item>>

\* a key whose item_id is not of the sort key's type is rejected by the store
KeyMatchesSchema(py) == SerializedType(py) = ItemIdType

\* service: delete_items(ITEM_TABLE_NAME, [{"category": ..., "item_id": x} for x in response_items])
\* The batch writer sends the keys in one request (fewer than 25 keys): the
\* request is applied or it fails as a whole.
DeleteItems(r) ==
    /\ returned = <<>>
    /\ r.pc = "d_delete_items"
    /\ LET keys == r.response_items
       IN  IF Len(keys) = 0
           THEN /\ Continue(r, [r EXCEPT !.pc = "d_delete_category"])
                /\ UNCHANGED <<table_item, returned>>
           ELSE \E reported \in StoreOutcomes :
                LET outcome == IF reported = "ok" /\ \E i \in 1..Len(keys) : ~KeyMatchesSchema(keys[i])
                               THEN "ValidationException" ELSE reported
                    raised == delete_items(outcome)
                    r2 == Issue(r, "batch_delete:item", outcome)
                    gone == {x \in table_item :
                                /\ x.category = r.body
                                /\ \E i \in 1..Len(keys) : keys[i].val = x.item_id}
                IN  IF raised.kind # "none"
                    THEN /\ Return(r2, raised, delete_lambda_handler(raised, DeleteOk))
                         /\ End(r)
                         /\ UNCHANGED table_item
                    ELSE /\ table_item' = table_item \ gone
                         /\ Continue(r, [r2 EXCEPT !.pc = "d_delete_category",
                                                   !.muts = @ + Cardinality(gone)])
                         /\ UNCHANGED returned
    /\ UNCHANGED table_category

\* service: delete_items(CATEGORY_TABLE_NAME, [{"category": body.category}]); return 200
DeleteCategory(r) ==
    /\ returned = <<>>
    /\ r.pc = "d_delete_category"
    /\ \E outcome \in StoreOutcomes :
        LET raised == delete_items(outcome)
            gone == {x \in table_category : x.category = r.body}
            r2 == Issue(r, "batch_delete:category", outcome)
        IN  /\ End(r)
            /\ IF raised.kind # "none"
               THEN /\ Return(r2, raised, delete_lambda_handler(raised, DeleteOk))
                    /\ UNCHANGED table_category
               ELSE /\ table_category' = table_category \ gone
                    /\ Return([r2 EXCEPT !.muts = @ + Cardinality(gone)], NoExc,
                              delete_lambda_handler(NoExc, DeleteOk))
    /\ UNCHANGED table_item

\* ---- omikuji (draw) ----
\* a draw over 0..num_item instead of 0..num_item - 1
randint_mutant(a, b) == a..(b + 1)

\* random.randint(a, b): an integer of a..b; ValueError when the range is empty
randint(a, b) == a..b

\* a service that blames the server for a missing category
omikuji_category_is_empty_mutant(category) == ServerError("category is empty: " \o category)

\* service: what it raises when the category lookup gave None
omikuji_category_is_empty(category) == ClientError("category is empty: " \o category)

\* service: response_category = get_item(CATEGORY_TABLE_NAME, ...).  randint
\* on an empty range raises at once; otherwise the invocation goes on to the
\* item read, where the value is drawn into the key.
DrawGetCategory(r) ==
    /\ \E outcome \in StoreOutcomes :
        LET res == omikuji_get_item(outcome, {x \in table_category : x.category = r.body})
            r2 == Issue(r, "get_item:category", outcome)
            found == CHOOSE x \in res.item : TRUE
            ids == randint(0, found.num_item - 1)
            raised == IF res.raised.kind # "none" THEN res.raised
                      ELSE IF res.item = {} THEN omikuji_category_is_empty(r.body)
                      ELSE OtherError("ValueError")
        IN  IF res.raised.kind # "none" \/ res.item = {} \/ ids = {}
            THEN /\ Return(r2, raised, omikuji_lambda_handler(raised, NoResponse))
                 /\ End(r)
            ELSE /\ Continue(r, [r2 EXCEPT !.pc = "o_get_item", !.response_category = found])
                 /\ UNCHANGED returned
    /\ UNCHANGED <<table_category, table_item>>

\* lambda_handler: parse the path parameters, read the environment, call service
InvokeDraw ==
    /\ CanInvoke
    /\ \E event \in DrawEvents, env \in SUBSET EnvVars :
        LET raised == ParseThenEnv(ApiPathParamater_from_event(event),
                                   EnvParam_from_env(EnvParam_fields_omikuji, env))
            r == [Start EXCEPT !.handler = "omikuji", !.event = event,
                               !.env = env, !.body = event.category]
        IN  IF raised.kind # "none"
            THEN /\ Return(r, raised, omikuji_lambda_handler(raised, NoResponse))
                 /\ UNCHANGED <<table_category, table_item, inv>>
            ELSE DrawGetCategory(r)

\* service: key = {"category": body.category, "item_id": random.randint(0,
\* num_item - 1)}; response_items = get_item(ITEM_TABLE_NAME, key); return it
DrawGetItem(r) ==
    /\ returned = <<>>
    /\ r.pc = "o_get_item"
    /\ \E outcome \in StoreOutcomes, id \in randint(0, r.response_category.num_item - 1) :
        LET key == [category |-> r.body, item_id |-> PyInt(id)]
            res == omikuji_get_item(outcome,
                      {x \in table_item : /\ KeyMatchesSchema(key.item_id)
                                           /\ x.category = key.category
                                           /\ x.item_id = key.item_id.val})
            r2 == [Issue(r, "get_item:item", outcome) EXCEPT !.key = key]
            raised == IF res.raised.kind # "none" THEN res.raised
                      ELSE IF res.item = {} THEN ServerError("item dose not exist")
                      ELSE NoExc
            ok == IF res.item = {} THEN NoResponse
                  ELSE Response(200, DictMsg(CHOOSE x \in res.item : TRUE))
        IN  /\ Return(r2, raised, omikuji_lambda_handler(raised, ok))
            /\ End(r)
    /\ UNCHANGED <<table_category, table_item>>

\* ---- list_category ----
\* the orders in which a Scan may return the records of a set
Orderings(S) ==
    {l \in [1..Cardinality(S) -> S] : \A i, j \in 1..Cardinality(S) : l[i] = l[j] => i = j}

\* the type of the category table's partition key, and the member the
\* expression "Items[].category.S" selects
CategoryType == "S"
ScanMember == "S"

\* service: response_items = scan_items(CATEGORY_TABLE_NAME, "Items[].category.S"); return it
ListScanItems(r) ==
    /\ \E outcome \in StoreOutcomes,
          names \in Orderings({x.category : x \in {y \in table_category : CategoryType = ScanMember}}) :
        LET res == scan_items(outcome, names)
            r2 == Issue(r, "scan:category", outcome)
        IN  /\ Return(r2, res.raised,
                      list_lambda_handler(res.raised, Response(200, ListMsg(res.items))))
            /\ End(r)
    /\ UNCHANGED <<table_category, table_item>>

\* lambda_handler: read the environment (there is nothing to parse), call service
InvokeList ==
    /\ CanInvoke
    /\ \E env \in SUBSET EnvVars :
        LET raised == EnvParam_from_env(EnvParam_fields_list, env)
            r == [Start EXCEPT !.handler = "list_category", !.env = env]
        IN  IF raised.kind # "none"
            THEN /\ Return(r, raised, list_lambda_handler(raised, NoResponse))
                 /\ UNCHANGED <<table_category, table_item, inv>>
            ELSE ListScanItems(r)

\* ---- create_category ----
\* Write the items with ids 0..n-1 (a put replaces the record with the same key) ...
CreatePutItems ==
    /\ CanInvoke
    /\ \E c \in Categories, n \in 0..MaxItems :
        /\ table_item' = table_item \cup {Item(c, i) : i \in 0..(n - 1)}
        /\ Continue(Start, [Start EXCEPT !.pc = "c_put_category", !.handler = "create_category",
                               !.env = EnvVars, !.body = c,
                               !.response_category = [category |-> c, num_item |-> n],
                               !.ops = <<[op |-> "batch_put:item", outcome |-> "ok"]>>, !.muts = n])
    /\ UNCHANGED <<table_category, returned>>

\* ... then the category record with num_item = n; return 200
CreatePutCategory(r) ==
    /\ returned = <<>>
    /\ r.pc = "c_put_category"
    /\ table_category' = {x \in table_category : x.category # r.body}
                            \cup {r.response_category}
    /\ Return([Issue(r, "put:category", "ok") EXCEPT !.muts = @ + 1], NoExc, DeleteOk)
    /\ End(r)
    /\ UNCHANGED table_item

\* ---- the system ----
Next ==
    \/ Deliver
    \/ InvokeDelete
    \/ \E r \in BagToSet(inv) : DeleteQueryItems(r)
    \/ \E r \in BagToSet(inv) : DeleteItems(r)
    \/ \E r \in BagToSet(inv) : DeleteCategory(r)
    \/ InvokeDraw
    \/ \E r \in BagToSet(inv) : DrawGetItem(r)
    \/ InvokeList
    \/ CreatePutItems
    \/ \E r \in BagToSet(inv) : CreatePutCategory(r)

Spec == Init /\ [][Next]_vars

TypeOK ==
    /\ \A x \in table_category : x.category \in Categories /\ x.num_item \in 0..MaxItems
    /\ \A x \in table_item : x.category \in Categories /\ x.item_id \in 0..(MaxItems - 1)
    /\ Len(returned) <= 1
    /\ BagCardinality(inv) <= MaxConcurrent

\* ======================= properties =======================
\* the invocation whose envelope has just been returned
R == returned[1]
Finished(handler) == returned # <<>> /\ returned[1].inv.handler = handler
Handlers == {"delete_category", "omikuji", "list_category"}
FinishedHandler == returned # <<>> /\ returned[1].inv.handler \in Handlers

StoredCategories == {x.category : x \in table_category}
ItemsOf(c) == {x \in table_item : x.category = c}

\* an invocation in local state r passes from "not in flight" to "in flight" in this step
Enters(r) == CopiesIn(r, inv') > CopiesIn(r, inv)

\* C1: after delete-category returns 200 for a category, the item table holds
\* no record with that category key and the category table holds no record
\* for that category.
C1_DeleteRemovesItemsAndCategory ==
    (Finished("delete_category") /\ R.response.statusCode = 200)
        => /\ ItemsOf(R.inv.body) = {}
           /\ R.inv.body \notin StoredCategories

\* C2: delete-category removes the category record only at a point where no
\* item record with that category key remains in the item table.
C2_CategoryRemovedOnlyWithoutItems ==
    [][ \A c \in Categories :
            (c \in StoredCategories /\ c \notin StoredCategories') => ItemsOf(c) = {} ]_vars

\* C3: a delete-category body that is a JSON object with only a category
\* field, naming an existing category, passes request parsing and ends with
\* status 200 and message "success".
C3_CategoryOnlyBodySucceeds ==
    ( /\ Finished("delete_category")
      /\ R.inv.event.kind = "object"
      /\ R.inv.event.keys = {"category"}
      /\ R.inv.event.category \in StoredCategories
      /\ R.inv.env = EnvVars )
        => /\ R.raised # ClientError("Invalid parameter.")
           /\ R.response = Response(200, StrMsg("success"))

\* C4: a draw that reads num_item = N >= 1 requests an item id in [0, N) of
\* its own category; when it answers 200 the payload is the stored item record
\* with that key; and when all items 0..N-1 of the category exist and the
\* store reports no failure it answers 200.
DrawInRange(r) ==
    /\ r.response_category.num_item >= 1
    /\ r.key.category = r.body
    /\ r.key.item_id.type = "int"
    /\ r.key.item_id.val \in 0..(r.response_category.num_item - 1)

C4_DrawReturnsItemInRange ==
    /\ \A r \in BagToSet(inv) : r.handler = "omikuji" => r.response_category.num_item >= 1
    /\ (Finished("omikuji") /\ Len(R.inv.ops) = 2) =>
          /\ DrawInRange(R.inv)
          /\ R.response.statusCode = 200 =>
                /\ R.response.message.type = "dict"
                /\ R.response.message.dict \in table_item
                /\ R.response.message.dict.category = R.inv.body
                /\ R.response.message.dict.item_id = R.inv.key.item_id.val
          /\ ( /\ R.inv.ops[2].outcome = "ok"
               /\ \A i \in 0..(R.inv.response_category.num_item - 1) :
                     \E x \in table_item : x.category = R.inv.body /\ x.item_id = i )
                => R.response.statusCode = 200

\* C4 witness: a draw on a category with 2 items returns the item with id 1
\* while the other category has items too
C4_Witness ==
    /\ Finished("omikuji")
    /\ R.response.statusCode = 200
    /\ R.inv.response_category.num_item = 2
    /\ R.response.message.dict.item_id = 1
    /\ \E x \in table_item : x.category # R.inv.body

\* C5: each category record's num_item equals the number of item records
\* sharing its category key, in every state.
C5_NumItemMatchesItems ==
    \A x \in table_category : x.num_item = Cardinality(ItemsOf(x.category))

\* C6: each of the three handlers returns one envelope whose status and
\* message are decided by what parse + service did: normal return 200;
\* ServerError 500 with the fixed "try again" message; ClientError 400 with
\* "client error. " followed by the error's message; anything else 500 with
\* the fixed "contact the operator" message.
C6_EnvelopeByOutcome ==
    /\ Len(returned) <= 1
    /\ FinishedHandler =>
          /\ R.raised.kind \in {"none", "ServerError", "ClientError", "Other"}
          /\ R.response.statusCode \in {200, 400, 500}
          /\ R.raised.kind = "none" => R.response.statusCode = 200
          /\ R.raised.kind = "ServerError" =>
                R.response = Response(500,
                    StrMsg("internal server error. Please access again after some time."))
          /\ R.raised.kind = "ClientError" =>
                R.response = Response(400, StrMsg("client error. " \o R.raised.message))
          /\ R.raised.kind = "Other" =>
                R.response = Response(500,
                    StrMsg("internal server error. Please contact the operator."))

\* C6 witness: delete-category of a category without a record answers 400
\* and echoes the ClientError's message
C6_Witness ==
    /\ Finished("delete_category")
    /\ R.raised.kind = "ClientError"
    /\ R.response = Response(400, StrMsg("client error. category is empty: A"))

\* C7: what the read helpers make of a failure the store reports.
\* "resource not found" is absence: the lookup of a category goes on as for a
\* missing record, the read of an item likewise, query_items and scan_items
\* give the empty sequence, and the helper raises nothing.  "internal error" is
\* ServerError and every other code is ClientError, carrying the store's message.
LastOp(r) == r.ops[Len(r.ops)]
ReadOps == {"get_item:category", "get_item:item", "query:item", "scan:category"}

C7_ReadFailure(r, raised, response) ==
    LET last == LastOp(r)
    IN  (last.op \in ReadOps /\ last.outcome \in ErrorCodes) =>
          /\ last.outcome = "InternalServerError" =>
                raised = [kind |-> "ServerError", message |-> ErrorMessage(last.outcome)]
          /\ last.outcome \notin {"InternalServerError", "ResourceNotFoundException"} =>
                raised = [kind |-> "ClientError", message |-> ErrorMessage(last.outcome)]
          /\ last.outcome = "ResourceNotFoundException" =>
                /\ last.op = "get_item:category" =>
                      raised = [kind |-> "ClientError", message |-> "category is empty: " \o r.body]
                /\ last.op = "get_item:item" =>
                      raised = [kind |-> "ServerError", message |-> "item dose not exist"]
                /\ last.op = "scan:category" =>
                      /\ raised.kind = "none"
                      /\ response = Response(200, ListMsg(<<>>))
                /\ last.op # "query:item"

C7_ReadFailureClassified ==
    /\ FinishedHandler /\ R.inv.ops # <<>> => C7_ReadFailure(R.inv, R.raised, R.response)
    \* a query that met "resource not found" went on with the empty sequence
    /\ \A r \in BagToSet(inv) \cup {x.inv : x \in {returned[i] : i \in 1..Len(returned)}} :
          \A i \in 1..Len(r.ops) :
              (r.ops[i].op = "query:item" /\ r.ops[i].outcome = "ResourceNotFoundException")
                  => /\ r.response_items = <<>>
                     /\ r.pc \in {"d_delete_items", "d_delete_category"}
    \* only "ok" and "resource not found" let an invocation go on after a read
    /\ \A r \in BagToSet(inv) :
          \A i \in 1..Len(r.ops) : r.ops[i].outcome \in {"ok", "ResourceNotFoundException"}

\* C7 witness: the scan of a non-empty category table met "resource not
\* found" and list-categories answered 200 with the empty list
C7_Witness ==
    /\ Finished("list_category")
    /\ R.inv.ops # <<>>
    /\ LastOp(R.inv).outcome = "ResourceNotFoundException"
    /\ table_category # {}
    /\ R.response = Response(200, ListMsg(<<>>))

\* C8: when delete-category with a body naming a category (environment
\* complete, no internal store error) looks up a category that has no record,
\* the invocation ends in that step with status 400, the step leaves both
\* tables unchanged, and no invocation goes on to the query or the deletes.
C8_DeleteMissingCategory ==
    [][ \A c \in Categories \ StoredCategories :
          /\ \A r \in BagToSet(inv') :
                (r.handler = "delete_category" /\ r.body = c /\ r.pc = "d_query_items")
                    => ~Enters(r)
          /\ ( /\ returned = <<>> /\ returned' # <<>>
               /\ returned'[1].inv.handler = "delete_category"
               /\ returned'[1].inv.event.kind = "object"
               /\ returned'[1].inv.event.category = c
               /\ returned'[1].inv.env = EnvVars
               /\ Len(returned'[1].inv.ops) <= 1
               /\ \A i \in 1..Len(returned'[1].inv.ops) :
                     returned'[1].inv.ops[i].outcome # "InternalServerError" )
                => /\ returned'[1].response.statusCode = 400
                   /\ returned'[1].raised.kind = "ClientError"
                   /\ returned'[1].inv.muts = 0
                   /\ \A i \in 1..Len(returned'[1].inv.ops) :
                         returned'[1].inv.ops[i].op = "get_item:category"
                   /\ UNCHANGED <<table_category, table_item>> ]_vars

\* C8 witness: a delete-category whose lookup found no record of A answered
\* 400 after that one call, while category B is stored
C8_Witness ==
    /\ Finished("delete_category")
    /\ R.inv.body = "A" /\ "A" \notin StoredCategories /\ "B" \in StoredCategories
    /\ R.inv.ops = <<[op |-> "get_item:category", outcome |-> "ok"]>>
    /\ R.response.statusCode = 400
    /\ R.inv.muts = 0

\* C9: when a draw (environment complete, no internal store error) looks up a
\* category that has no record, the invocation ends in that step with status
\* 400, having issued the lookup only (no read of the item table), and the
\* step leaves both tables unchanged.
C9_DrawMissingCategory ==
    [][ \A c \in Categories \ StoredCategories :
          /\ \A r \in BagToSet(inv') :
                (r.handler = "omikuji" /\ r.body = c /\ r.pc = "o_get_item")
                    => ~Enters(r)
          /\ ( /\ returned = <<>> /\ returned' # <<>>
               /\ returned'[1].inv.handler = "omikuji"
               /\ returned'[1].inv.event.kind = "object"
               /\ returned'[1].inv.event.category = c
               /\ returned'[1].inv.env = EnvVars
               /\ Len(returned'[1].inv.ops) <= 1
               /\ \A i \in 1..Len(returned'[1].inv.ops) :
                     returned'[1].inv.ops[i].outcome # "InternalServerError" )
                => /\ returned'[1].response.statusCode = 400
                   /\ returned'[1].raised.kind = "ClientError"
                   /\ returned'[1].inv.ops = <<[op |-> "get_item:category",
                                                 outcome |-> returned'[1].inv.ops[1].outcome]>>
                   /\ UNCHANGED <<table_category, table_item>> ]_vars

\* C9 witness: a draw on A, which has no record although items of A are
\* stored, answered 400 after the lookup
C9_Witness ==
    /\ Finished("omikuji")
    /\ R.inv.body = "A" /\ "A" \notin StoredCategories /\ ItemsOf("A") # {}
    /\ R.inv.ops = <<[op |-> "get_item:category", outcome |-> "ok"]>>
    /\ R.response.statusCode = 400

\* C10: for every handler and every event, if CATEGORY_TABLE_NAME or
\* ITEM_TABLE_NAME is absent from the environment the invocation ends in the
\* ServerError outcome (500, "try again" message) before any store call.
C10_MissingEnvIsServerError ==
    (FinishedHandler /\ ~(EnvVars \subseteq R.inv.env))
        => /\ R.raised.kind = "ServerError"
           /\ R.response = Response(500, StrMsg(MsgTryLater))
           /\ R.inv.ops = <<>>

\* C11: for every draw event without a category path segment (no
\* pathParameters entry, pathParameters null, or pathParameters lacking
\* category) parsing raises ClientError and the invocation ends with status
\* 400 without any store access.
C11_MissingSegmentIsClientError ==
    (Finished("omikuji") /\ ~(ApiPathParamater_fields \subseteq R.inv.event.keys))
        => /\ R.raised = ClientError("Invalid parameter.")
           /\ R.response.statusCode = 400
           /\ R.inv.ops = <<>>

\* C12: for every delete-category event whose body is malformed (absent,
\* null, not JSON, or an object without the category key) the invocation ends
\* with status 400 and the message "client error. Invalid parameter.", the
\* same for all such bodies, and no store operation is issued.
C12_MalformedBodyIsGeneric400 ==
    (Finished("delete_category") /\ "category" \notin R.inv.event.keys)
        => /\ R.response = Response(400, StrMsg(MsgClient \o "Invalid parameter."))
           /\ R.inv.ops = <<>>
           /\ R.inv.muts = 0

\* C13: a draw whose category lookup succeeds and finds a record with
\* num_item = 0 ends in the ServerError outcome: status 500 with the message
\* "internal server error. Please access again after some time.", never 200
\* and never 400.
C13_DrawOnEmptyCategoryIsServerError ==
    [][ ( /\ returned = <<>>
          /\ returned' # <<>>
          /\ returned'[1].inv.handler = "omikuji"
          /\ returned'[1].inv.ops = <<[op |-> "get_item:category", outcome |-> "ok"]>>
          /\ [category |-> returned'[1].inv.body, num_item |-> 0] \in table_category )
        => /\ returned'[1].raised.kind = "ServerError"
           /\ returned'[1].response = Response(500, StrMsg(MsgTryLater)) ]_vars

\* C14: when the store reports a failure code to delete_items on a non-empty
\* key list, delete_items raises what get_item raises for the same code
\* ("resource not found", "internal error", every other code) and the
\* invocation has deleted nothing through that call; with an empty key list
\* delete_items issues no store call.
BatchDeleteOps == {"batch_delete:item", "batch_delete:category"}

C14_DeleteItemsClassifiesLikeGetItem ==
    (Finished("delete_category") /\ R.inv.ops # <<>>) =>
        /\ (LastOp(R.inv).op \in BatchDeleteOps /\ LastOp(R.inv).outcome \in ErrorCodes) =>
              /\ R.raised = get_item(LastOp(R.inv).outcome, {}).raised
              /\ R.inv.muts = 0
        /\ R.inv.response_items = <<>> =>
              \A i \in 1..Len(R.inv.ops) : R.inv.ops[i].op # "batch_delete:item"

\* C15: in delete-category a store step that raises stops the sequence.  The
\* step that raises is the last one issued and changes no table; when it is
\* the category lookup or the item-id query this invocation has changed
\* nothing at all; when it is the item bulk-delete the category-record delete
\* was never issued; the response is 500 for ServerError and 400 for
\* ClientError, never 200.  Status 200 is returned only by the step in which
\* the category-record delete completes without error.
C15_Raises(o) ==
    /\ o.outcome # "ok"
    /\ ~(o.op = "query:item" /\ o.outcome = ResourceNotFoundException)

C15_DeleteFailureStopsSequence ==
    [][ ( /\ returned = <<>>
          /\ returned' # <<>>
          /\ returned'[1].inv.handler = "delete_category"
          /\ returned'[1].inv.ops # <<>> )
        => LET e == returned'[1]
               ops == e.inv.ops
               last == ops[Len(ops)]
           IN  /\ \A i \in 1..(Len(ops) - 1) : ~C15_Raises(ops[i])
               /\ e.raised.kind # "none" =>
                     /\ table_category' = table_category
                     /\ table_item' = table_item
                     /\ e.response.statusCode = (IF e.raised.kind = "ClientError" THEN 400 ELSE 500)
                     /\ last.op \in {"get_item:category", "query:item"} => e.inv.muts = 0
                     /\ last.op = "batch_delete:item" =>
                           \A i \in 1..Len(ops) : ops[i].op # "batch_delete:category"
               /\ C15_Raises(last) => e.raised.kind \in {"ClientError", "ServerError"}
               /\ e.response.statusCode = 200 =>
                     /\ e.raised.kind = "none"
                     /\ last = [op |-> "batch_delete:category", outcome |-> "ok"]
                     /\ e.inv.body \notin {x.category : x \in table_category'} ]_vars

\* C15 witness: the category-record delete fails with an internal error after
\* the lookup and the query went through; the answer is 500 and the category
\* record and its items are still stored
C15_Witness ==
    /\ Finished("delete_category")
    /\ Len(R.inv.ops) = 3
    /\ LastOp(R.inv) = [op |-> "batch_delete:category", outcome |-> InternalServerError]
    /\ R.response = Response(500, StrMsg(MsgTryLater))
    /\ R.inv.body \in StoredCategories
    /\ ItemsOf(R.inv.body) # {}

====
